---- MODULE Spec2Model ----
(***************************************************************************)
(* Model of api/app.py: the RAG chat service.  The state is the global     *)
(* vector_db reference with the VectorDatabase objects it can point to,    *)
(* and the requests in flight.  Each action is one atomic segment of a     *)
(* request handler: the code between two points at which the asyncio       *)
(* event loop can run another request (an await in upload_pdf, a yield in  *)
(* generate).  chat has no await, so its whole body is one action.         *)
(***************************************************************************)
EXTENDS Integers, Sequences, FiniteSets, TLC

\* Bounds of the model.
MaxReq == 2        \* requests in flight at the same time
MaxChunks == 2     \* chunks the splitter makes of one document
MaxEvents == 2     \* events of one provider completion stream

\* vector_db = None
None == 0
\* chunk.choices[0].delta.content is None
NoContent == 0
\* db.search(..., k=3)
K == 3

Req == 1..MaxReq
ObjIds == 1..(MaxReq + 1)

----------------------------------------------------------------------------
\* Text: a string is a sequence of characters.

Bearer == <<"B", "e", "a", "r", "e", "r", " ">>
DotPdf == <<".", "p", "d", "f">>

StartsWith(s, p) == Len(s) >= Len(p) /\ SubSeq(s, 1, Len(p)) = p

EndsWith(s, p) == Len(s) >= Len(p) /\ SubSeq(s, Len(s) - Len(p) + 1, Len(s)) = p

LowerChar(c) ==
    CASE c = "A" -> "a"
      [] c = "P" -> "p"
      [] c = "D" -> "d"
      [] c = "F" -> "f"
      [] c = "B" -> "b"
      [] OTHER -> c

Lower(s) == [i \in 1..Len(s) |-> LowerChar(s[i])]

\* Request inputs.
Authorizations ==
    { <<>>,
      Bearer \o <<"k">>,
      <<"b", "e", "a", "r", "e", "r", " ", "k">>,
      <<"B", "a", "s", "i", "c", " ", "k">> }

Filenames ==
    { <<>>,
      <<"n", ".", "t", "x", "t">>,
      <<"a", ".", "p", "d", "f">>,
      <<"a", ".", "P", "D", "F">> }

DeveloperMessages == { <<"dev">> }
UserMessages == { "q" }

\* if not authorization or not authorization.startswith("Bearer ")
AuthRejected(authorization) ==
    authorization = <<>> \/ ~StartsWith(authorization, Bearer)

\* if not file.filename or not file.filename.lower().endswith('.pdf')
FormatRejected(filename) ==
    filename = <<>> \/ ~EndsWith(Lower(filename), DotPdf)

\* except Exception as e: raise HTTPException(status_code=500, ...) in chat.
\* HTTPException is an Exception, so the handler's own 401 is caught too.
ChatExcept(raised) == 500

\* except Exception as e: raise HTTPException(status_code=500, ...) in upload_pdf
UploadExcept(raised) == 500

----------------------------------------------------------------------------
\* Collaborators: splitter output, embedder, VectorDatabase.

\* The chunks of the uploaded document, in document order.
ChunkText(i) ==
    CASE i = 1 -> "c1"
      [] i = 2 -> "c2"
      [] i = 3 -> "c3"
      [] OTHER -> "c4"

\* text_splitter.split_texts(pdf_loader.load_documents()): the document cut
\* after any number of chunks up to MaxChunks (none: a PDF without text).
Docs == { [i \in 1..n |-> ChunkText(i)] : n \in 0..MaxChunks }

\* The embedding of a text: a fixed-length vector, a function of the text.
Embed(text) ==
    CASE text = "c1" -> <<1, 0>>
      [] text = "c2" -> <<1, 1>>
      [] text = "c3" -> <<2, 1>>
      [] text = "c4" -> <<1, 2>>
      [] OTHER -> <<0, 1>>

Dot(a, b) == a[1] * b[1] + a[2] * b[2]

\* cosine(a, q) > cosine(b, q), for vectors with non-negative products
Closer(a, b, q) ==
    Dot(a, q) * Dot(a, q) * Dot(b, b) > Dot(b, q) * Dot(b, q) * Dot(a, a)

\* The next result of a search over the entries at positions idx: the most
\* similar one, the earliest inserted among equals.
Best(vectors, idx, q) ==
    CHOOSE i \in idx :
        \A j \in idx \ {i} :
            \/ Closer(vectors[i][2], vectors[j][2], q)
            \/ (~Closer(vectors[j][2], vectors[i][2], q) /\ i < j)

RECURSIVE Ranked(_, _, _, _)
Ranked(vectors, idx, q, k) ==
    IF k = 0 \/ idx = {} THEN <<>>
    ELSE LET b == Best(vectors, idx, q)
         IN  <<vectors[b][1]>> \o Ranked(vectors, idx \ {b}, q, k - 1)

\* [result[0] for result in db.search(query_vector, k)]
Search(vectors, q, k) == Ranked(vectors, DOMAIN vectors, q, k)

\* VectorDatabase.insert(text, vector)
Insert(vectors, text) == Append(vectors, <<text, Embed(text)>>)

\* The index abuild_from_list makes of a list of chunks.
BuildAll(chunks) == [i \in 1..Len(chunks) |-> <<chunks[i], Embed(chunks[i])>>]

IndexTexts(vectors) == [i \in 1..Len(vectors) |-> vectors[i][1]]

----------------------------------------------------------------------------
\* Prompt augmentation.

RECURSIVE Join(_)
Join(chunks) ==
    IF chunks = <<>> THEN <<>>
    ELSE IF Len(chunks) = 1 THEN <<chunks[1]>>
    ELSE <<chunks[1], "\n\n">> \o Join(Tail(chunks))

ContextHeader == "\n\nRelevant context from uploaded documents:\n"

\* Variant: the context section is appended whether or not chunks were found.
EnhanceAlways(developer_message, relevant_chunks) ==
    developer_message
      \o <<ContextHeader>>
      \o Join(relevant_chunks)
      \o <<"\n\nPlease use this context to answer the user's question when relevant.">>

Enhance(developer_message, relevant_chunks) ==
    IF relevant_chunks = <<>> THEN developer_message
    ELSE developer_message
           \o <<ContextHeader>>
           \o Join(relevant_chunks)
           \o <<"\n\nPlease use this context to answer the user's question when relevant.">>

----------------------------------------------------------------------------
VARIABLES
    vector_db,      \* the global: None or the id of a VectorDatabase
    heap,           \* the VectorDatabase objects: id -> [alloc, vectors]
    kind,           \* per request: "idle", "chat", "upload", "health"
    pc,             \* per request: where its handler is
    inp,            \* per request: its Authorization header and file name
    resp,           \* per request: the HTTP status sent and the count in the body
    tmp,            \* per request: its temporary file: "none", "exists", "deleted"
    calls,          \* per request: collaborator calls made
    upl,            \* per upload: chunks, db
    cht,            \* per chat: the locals of chat and of generate
    last_indexed,   \* <<chunks>> of the latest upload answered 200, or <<>>
    race            \* which upload was answered 200 last; which uploads were
                    \* in flight when another upload was answered 200

vars == <<vector_db, heap, kind, pc, inp, resp, tmp, calls, upl, cht, last_indexed, race>>

Free == [alloc |-> FALSE, vectors |-> <<>>]
Empty == [alloc |-> TRUE, vectors |-> <<>>]

NoInput == [authorization |-> <<>>, filename |-> <<>>]
NoResp == [status |-> 0, n |-> 0]
NoCalls == [embed |-> 0, gen |-> 0, loader |-> 0]
NoUpl == [chunks |-> <<>>, db |-> None, embedded |-> 0]
NoCht ==
    [ developer_message |-> <<>>, user_message |-> "",
      retrieval |-> "none", relevant_chunks |-> <<>>,
      enhanced_developer_message |-> <<>>,
      db |-> None, seen |-> <<>>, prior |-> <<>>, overlap |-> FALSE,
      sent |-> <<>>, produced |-> <<>>, emitted |-> <<>> ]

NoRace == [last |-> 0, overtaken |-> {}]

Terminal == {"done", "aborted", "cancelled"}

\* Inside a synchronous collaborator call: the handler holds the event loop.
InCall == {"embedding", "creating", "reading"}

\* The event loop is free to run the code of r: no other request is inside a
\* synchronous call.
Running(r) == \A q \in Req \ {r} : pc[q] \notin InCall

Init ==
    /\ vector_db = None
    /\ heap = [o \in ObjIds |-> Free]
    /\ kind = [r \in Req |-> "idle"]
    /\ pc = [r \in Req |-> "idle"]
    /\ inp = [r \in Req |-> NoInput]
    /\ resp = [r \in Req |-> NoResp]
    /\ tmp = [r \in Req |-> "none"]
    /\ calls = [r \in Req |-> NoCalls]
    /\ upl = [r \in Req |-> NoUpl]
    /\ cht = [r \in Req |-> NoCht]
    /\ last_indexed = <<>>
    /\ race = NoRace

\* The vectors of the index the global points to (none: no index).
Live(vdb, h) == IF vdb = None THEN <<>> ELSE h[vdb].vectors

\* A VectorDatabase nothing refers to any more is released.
Collect(h, vdb, u) ==
    [o \in ObjIds |->
        IF o = vdb \/ (\E r \in Req : u[r].db = o) THEN h[o] ELSE Free]

\* A new request is handled in the first free place.
FreeSlot(r) == kind[r] = "idle" /\ \A p \in Req : p < r => kind[p] # "idle"

NewObj(h) == CHOOSE o \in ObjIds : ~h[o].alloc /\ \A p \in ObjIds : p < o => h[p].alloc

----------------------------------------------------------------------------
\* POST /api/upload-pdf

\* Variant: the temporary file is opened before the request is validated.
UploadBeginTempFirst(r, authorization, filename) ==
    /\ Running(r)
    /\ FreeSlot(r)
    /\ kind' = [kind EXCEPT ![r] = "upload"]
    /\ inp' = [inp EXCEPT ![r] = [authorization |-> authorization, filename |-> filename]]
    /\ tmp' = [tmp EXCEPT ![r] = "exists"]
    /\ IF AuthRejected(authorization)
       THEN /\ resp' = [resp EXCEPT ![r] = [status |-> UploadExcept(401), n |-> 0]]
            /\ pc' = [pc EXCEPT ![r] = "done"]
       ELSE IF FormatRejected(filename)
       THEN /\ resp' = [resp EXCEPT ![r] = [status |-> UploadExcept(400), n |-> 0]]
            /\ pc' = [pc EXCEPT ![r] = "done"]
       ELSE /\ pc' = [pc EXCEPT ![r] = "read"]
            /\ resp' = resp
    /\ UNCHANGED <<vector_db, heap, calls, upl, cht, last_indexed, race>>

\* Lines 212-223: the credential and file-type checks, the temporary file,
\* up to "await file.read()".
UploadBegin(r, authorization, filename) ==
    /\ Running(r)
    /\ FreeSlot(r)
    /\ kind' = [kind EXCEPT ![r] = "upload"]
    /\ inp' = [inp EXCEPT ![r] = [authorization |-> authorization, filename |-> filename]]
    /\ IF AuthRejected(authorization)
       THEN /\ resp' = [resp EXCEPT ![r] = [status |-> UploadExcept(401), n |-> 0]]
            /\ pc' = [pc EXCEPT ![r] = "done"]
            /\ tmp' = tmp
       ELSE IF FormatRejected(filename)
       THEN /\ resp' = [resp EXCEPT ![r] = [status |-> UploadExcept(400), n |-> 0]]
            /\ pc' = [pc EXCEPT ![r] = "done"]
            /\ tmp' = tmp
       ELSE /\ tmp' = [tmp EXCEPT ![r] = "exists"]
            /\ pc' = [pc EXCEPT ![r] = "read"]
            /\ resp' = resp
    /\ UNCHANGED <<vector_db, heap, calls, upl, cht, last_indexed, race>>

\* Variant: the new VectorDatabase is published as soon as it is created.
GlobalAtCreateInstalls(vdb, db) == db

\* db = VectorDatabase(embedding_model=embedding_model): db is a local of the
\* request; the global is not touched.
GlobalAtCreate(vdb, db) == vdb

\* Variant: the chunks are inserted into the live index, get_vector_db().
BuildTargetGlobal(vdb, db) == IF vdb = None THEN db ELSE vdb

\* await db.abuild_from_list(chunks): the index the entries are inserted into
\* is the request's own db.
BuildTarget(vdb, db) == db

\* Variant: the global is set only while it is None, as get_vector_db does.
RebindIfNone(vdb, db) == IF vdb = None THEN db ELSE vdb

\* vector_db = db
Rebind(vdb, db) == db

\* Lines 223-258: the content is written, the PDF loaded and split, the
\* private VectorDatabase created, up to the first await of abuild_from_list.
UploadLoad(r, failure, doc) ==
    /\ Running(r)
    /\ kind[r] = "upload" /\ pc[r] = "read"
    /\ calls' = [calls EXCEPT ![r].loader = @ + 1]
    /\ IF failure # "none"
       THEN /\ resp' = [resp EXCEPT ![r] = [status |-> UploadExcept(failure), n |-> 0]]
            /\ pc' = [pc EXCEPT ![r] = "done"]
            /\ UNCHANGED <<vector_db, heap, upl>>
       ELSE LET db == NewObj(heap)
            IN  /\ upl' = [upl EXCEPT ![r] = [chunks |-> doc, db |-> db, embedded |-> 0]]
                /\ vector_db' = GlobalAtCreate(vector_db, db)
                /\ heap' = Collect([heap EXCEPT ![db] = Empty], vector_db', upl')
                /\ pc' = [pc EXCEPT ![r] = "embed"]
                /\ resp' = resp
    /\ UNCHANGED <<kind, inp, tmp, cht, last_indexed, race>>

\* abuild_from_list, one chunk: its embedding is asked of the embedder and
\* the entry inserted into the private index; an embedder error ends the upload.
UploadEmbed(r, ok) ==
    /\ Running(r)
    /\ kind[r] = "upload" /\ pc[r] = "embed"
    /\ upl[r].embedded < Len(upl[r].chunks)
    /\ calls' = [calls EXCEPT ![r].embed = @ + 1]
    /\ IF ok
       THEN LET target == BuildTarget(vector_db, upl[r].db)
                text == upl[r].chunks[upl[r].embedded + 1]
            IN  /\ heap' = [heap EXCEPT ![target].vectors = Insert(@, text)]
                /\ upl' = [upl EXCEPT ![r].embedded = @ + 1]
                /\ UNCHANGED <<pc, resp>>
       ELSE /\ resp' = [resp EXCEPT ![r] = [status |-> UploadExcept("EmbeddingError"), n |-> 0]]
            /\ pc' = [pc EXCEPT ![r] = "done"]
            /\ upl' = [upl EXCEPT ![r].db = None]
            /\ heap' = Collect(heap, vector_db, upl')
    /\ UNCHANGED <<vector_db, kind, inp, tmp, cht, last_indexed, race>>

\* The other uploads suspended at an await.
InFlightUploads(r) ==
    { q \in Req \ {r} : kind[q] = "upload" /\ pc[q] \in {"read", "embed"} }

\* Variant: the entries are added to the index already live, if there is one.
UploadInstallMerges(r) ==
    /\ Running(r)
    /\ kind[r] = "upload" /\ pc[r] = "embed"
    /\ upl[r].embedded = Len(upl[r].chunks)
    /\ vector_db' = IF vector_db = None THEN upl[r].db ELSE vector_db
    /\ upl' = [upl EXCEPT ![r].db = None]
    /\ heap' = Collect(
          IF vector_db = None THEN heap
          ELSE [heap EXCEPT ![vector_db].vectors = @ \o heap[upl[r].db].vectors],
          vector_db', upl')
    /\ tmp' = [tmp EXCEPT ![r] = "deleted"]
    /\ resp' = [resp EXCEPT ![r] = [status |-> 200, n |-> Len(upl[r].chunks)]]
    /\ pc' = [pc EXCEPT ![r] = "done"]
    /\ last_indexed' = <<upl[r].chunks>>
    /\ race' = [last |-> r, overtaken |-> race.overtaken \cup InFlightUploads(r)]
    /\ UNCHANGED <<kind, inp, calls, cht>>

\* Lines 260-278: the build is complete; the global is rebound to the new
\* index, the temporary file unlinked, the answer returned.
UploadInstall(r) ==
    /\ Running(r)
    /\ kind[r] = "upload" /\ pc[r] = "embed"
    /\ upl[r].embedded = Len(upl[r].chunks)
    /\ vector_db' = Rebind(vector_db, upl[r].db)
    /\ upl' = [upl EXCEPT ![r].db = None]
    /\ heap' = Collect(heap, vector_db', upl')
    /\ tmp' = [tmp EXCEPT ![r] = "deleted"]
    /\ resp' = [resp EXCEPT ![r] = [status |-> 200, n |-> Len(upl[r].chunks)]]
    /\ pc' = [pc EXCEPT ![r] = "done"]
    /\ last_indexed' = <<upl[r].chunks>>
    /\ race' = [last |-> r, overtaken |-> race.overtaken \cup InFlightUploads(r)]
    /\ UNCHANGED <<kind, inp, calls, cht>>

\* The request is cancelled while suspended at an await: CancelledError is
\* not an Exception, no except clause runs, nothing is cleaned up.
UploadCancel(r) ==
    /\ Running(r)
    /\ kind[r] = "upload" /\ pc[r] \in {"read", "embed"}
    /\ pc' = [pc EXCEPT ![r] = "cancelled"]
    /\ upl' = [upl EXCEPT ![r].db = None]
    /\ heap' = Collect(heap, vector_db, upl')
    /\ UNCHANGED <<vector_db, kind, inp, resp, tmp, calls, cht, last_indexed, race>>

----------------------------------------------------------------------------
\* POST /api/chat

\* Variant: get_vector_db makes a new VectorDatabase on every call.
GetVectorDbFresh(vdb, h) == NewObj(h)

\* get_vector_db(): the global, created empty when it is None.
GetVectorDb(vdb, h) == IF vdb = None THEN NewObj(h) ELSE vdb

\* Lines 127-172: retrieval over db. A failure of the embedder or of the
\* search is caught and leaves no chunks.
Retrieve(vectors, user_message, outcome) ==
    IF Len(vectors) > 0 /\ outcome = "ok"
    THEN Search(vectors, Embed(user_message), K)
    ELSE <<>>

\* Variant: a retrieval failure is raised again and reaches the outer except.
EscapesOnError(outcome) == outcome # "ok"

\* Lines 131-172: the try around retrieval catches every Exception, so no
\* failure of the embedder or of the search leaves the handler.
Escapes(outcome) == FALSE

\* A build of another request is under way, with part of its chunks inserted.
BuildUnderWay == \E u \in Req : pc[u] = "embed" /\ upl[u].embedded > 0

\* Lines 108-149: the handler up to embedding_model.get_embedding, a
\* synchronous call; without an index to search (line 130) the handler runs
\* to its return. The handler has no await.
ChatHandle(r, authorization, developer_message, user_message) ==
    /\ Running(r)
    /\ FreeSlot(r)
    /\ kind' = [kind EXCEPT ![r] = "chat"]
    /\ inp' = [inp EXCEPT ![r] = [authorization |-> authorization, filename |-> <<>>]]
    /\ IF AuthRejected(authorization)
       THEN /\ resp' = [resp EXCEPT ![r] = [status |-> ChatExcept(401), n |-> 0]]
            /\ pc' = [pc EXCEPT ![r] = "done"]
            /\ cht' = [cht EXCEPT ![r] = [NoCht EXCEPT
                          !.developer_message = developer_message,
                          !.user_message = user_message]]
            /\ UNCHANGED <<vector_db, heap, calls>>
       ELSE LET db == GetVectorDb(vector_db, heap)
                h == IF vector_db = None THEN [heap EXCEPT ![db] = Empty] ELSE heap
                vectors == h[db].vectors
                searching == Len(vectors) > 0
            IN  /\ vector_db' = db
                /\ heap' = h
                /\ calls' = [calls EXCEPT ![r].embed = IF searching THEN @ + 1 ELSE @]
                /\ cht' = [cht EXCEPT ![r] =
                     [ developer_message |-> developer_message,
                       user_message |-> user_message,
                       retrieval |-> IF searching THEN "pending" ELSE "skipped",
                       relevant_chunks |-> <<>>,
                       enhanced_developer_message |->
                           IF searching THEN <<>> ELSE Enhance(developer_message, <<>>),
                       db |-> IF searching THEN db ELSE None,
                       seen |-> IndexTexts(vectors),
                       prior |-> last_indexed,
                       overlap |-> BuildUnderWay,
                       sent |-> <<>>, produced |-> <<>>, emitted |-> <<>> ]]
                /\ resp' = [resp EXCEPT ![r] =
                                [status |-> IF searching THEN 0 ELSE 200, n |-> 0]]
                /\ pc' = [pc EXCEPT ![r] = IF searching THEN "embedding" ELSE "gen"]
    /\ UNCHANGED <<tmp, upl, last_indexed, race>>

\* Lines 149-207: get_embedding returns or raises, the search runs, the
\* developer message is enhanced; the handler returns
\* StreamingResponse(generate()), status 200, whose body is not yet started.
ChatRetrieved(r, outcome) ==
    /\ Running(r)
    /\ kind[r] = "chat" /\ pc[r] = "embedding"
    /\ LET vectors == heap[cht[r].db].vectors
           relevant_chunks == Retrieve(vectors, cht[r].user_message, outcome)
           raised == outcome # "ok" /\ Escapes(outcome)
       IN  /\ cht' = [cht EXCEPT
                 ![r].retrieval = IF outcome = "ok" THEN "ok" ELSE "failed",
                 ![r].relevant_chunks = relevant_chunks,
                 ![r].enhanced_developer_message =
                     Enhance(cht[r].developer_message, relevant_chunks),
                 ![r].db = None]
           /\ resp' = [resp EXCEPT ![r] =
                           [status |-> IF raised THEN ChatExcept(outcome) ELSE 200, n |-> 0]]
           /\ pc' = [pc EXCEPT ![r] = IF raised THEN "done" ELSE "gen"]
    /\ UNCHANGED <<vector_db, heap, kind, inp, tmp, calls, upl, last_indexed, race>>

\* Variant: every event is yielded, those without content too.
StreamLoopYieldsAll(r, c, nulls, outcome) ==
    LET skipped == c.produced \o [i \in 1..nulls |-> NoContent]
        token == Len(skipped) + 1
    IN  /\ Len(skipped) + (IF outcome = "content" THEN 1 ELSE 0) <= MaxEvents
        /\ IF outcome = "content"
           THEN /\ cht' = [cht EXCEPT ![r] = [c EXCEPT
                              !.produced = Append(skipped, token),
                              !.emitted = Append(c.emitted \o [i \in 1..nulls |-> NoContent], token)]]
                /\ pc' = [pc EXCEPT ![r] = "yield"]
           ELSE /\ cht' = [cht EXCEPT ![r] = [c EXCEPT
                              !.produced = skipped,
                              !.emitted = c.emitted \o [i \in 1..nulls |-> NoContent]]]
                /\ pc' = [pc EXCEPT ![r] = IF outcome = "end" THEN "done" ELSE "aborted"]

\* Lines 193-195: the loop of generate() from where it stands to its next
\* yield, to the end of the provider's stream, or to the provider's error.
\* The stream gives `nulls` events without content, then `outcome`. An event
\* with content carries its position in the stream as its text.
StreamLoop(r, c, nulls, outcome) ==
    LET skipped == c.produced \o [i \in 1..nulls |-> NoContent]
        token == Len(skipped) + 1
    IN  /\ Len(skipped) + (IF outcome = "content" THEN 1 ELSE 0) <= MaxEvents
        /\ IF outcome = "content"
           THEN /\ cht' = [cht EXCEPT ![r] = [c EXCEPT
                              !.produced = Append(skipped, token),
                              !.emitted = Append(c.emitted, token)]]
                /\ pc' = [pc EXCEPT ![r] = "yield"]
           ELSE /\ cht' = [cht EXCEPT ![r] = [c EXCEPT !.produced = skipped]]
                /\ pc' = [pc EXCEPT ![r] = IF outcome = "end" THEN "done" ELSE "aborted"]

\* Lines 181-190, first run of generate(): the response has started (status
\* 200 is sent); client.chat.completions.create, a synchronous call, is made.
GenerateFirst(r) ==
    /\ Running(r)
    /\ kind[r] = "chat" /\ pc[r] = "gen"
    /\ calls' = [calls EXCEPT ![r].gen = @ + 1]
    /\ cht' = [cht EXCEPT ![r].sent =
                  << cht[r].enhanced_developer_message, cht[r].user_message >>]
    /\ pc' = [pc EXCEPT ![r] = "creating"]
    /\ UNCHANGED <<vector_db, heap, kind, inp, resp, tmp, upl, last_indexed, race>>

\* Lines 183-195: create returns the stream, or raises; the loop runs.
GenerateCreated(r, created, nulls, outcome) ==
    /\ Running(r)
    /\ kind[r] = "chat" /\ pc[r] = "creating"
    /\ IF created
       THEN StreamLoop(r, cht[r], nulls, outcome)
       ELSE /\ cht' = cht
            /\ pc' = [pc EXCEPT ![r] = "aborted"]
    /\ UNCHANGED <<vector_db, heap, kind, inp, resp, tmp, calls, upl, last_indexed, race>>

\* generate() is resumed after a yield and reads the stream, synchronously.
GenerateNext(r) ==
    /\ Running(r)
    /\ kind[r] = "chat" /\ pc[r] = "yield"
    /\ pc' = [pc EXCEPT ![r] = "reading"]
    /\ UNCHANGED <<vector_db, heap, kind, inp, resp, tmp, calls, upl, cht, last_indexed, race>>

\* Lines 193-195: the read returns.
GenerateRead(r, nulls, outcome) ==
    /\ Running(r)
    /\ kind[r] = "chat" /\ pc[r] = "reading"
    /\ StreamLoop(r, cht[r], nulls, outcome)
    /\ UNCHANGED <<vector_db, heap, kind, inp, resp, tmp, calls, upl, last_indexed, race>>

----------------------------------------------------------------------------
\* GET /api/health

\* Variant: the count is taken from get_vector_db(), which creates the index.
HealthCheckCreates(r) ==
    /\ Running(r)
    /\ FreeSlot(r)
    /\ kind' = [kind EXCEPT ![r] = "health"]
    /\ pc' = [pc EXCEPT ![r] = "done"]
    /\ vector_db' = GetVectorDb(vector_db, heap)
    /\ heap' = IF vector_db = None THEN [heap EXCEPT ![vector_db'] = Empty] ELSE heap
    /\ resp' = [resp EXCEPT ![r] = [status |-> 200, n |-> Len(heap'[vector_db'].vectors)]]
    /\ UNCHANGED <<inp, tmp, calls, upl, cht, last_indexed, race>>

\* Lines 289-293
HealthCheck(r) ==
    /\ Running(r)
    /\ FreeSlot(r)
    /\ kind' = [kind EXCEPT ![r] = "health"]
    /\ pc' = [pc EXCEPT ![r] = "done"]
    /\ resp' = [resp EXCEPT ![r] =
                   [status |-> 200,
                    n |-> IF vector_db # None THEN Len(heap[vector_db].vectors) ELSE 0]]
    /\ UNCHANGED <<vector_db, heap, inp, tmp, calls, upl, cht, last_indexed, race>>

\* A finished request leaves; a later request takes its place.
Recycle(r) ==
    /\ Running(r)
    /\ pc[r] \in Terminal
    /\ kind' = [kind EXCEPT ![r] = "idle"]
    /\ pc' = [pc EXCEPT ![r] = "idle"]
    /\ inp' = [inp EXCEPT ![r] = NoInput]
    /\ resp' = [resp EXCEPT ![r] = NoResp]
    /\ tmp' = [tmp EXCEPT ![r] = "none"]
    /\ calls' = [calls EXCEPT ![r] = NoCalls]
    /\ upl' = [upl EXCEPT ![r] = NoUpl]
    /\ cht' = [cht EXCEPT ![r] = NoCht]
    /\ race' = [last |-> IF race.last = r THEN 0 ELSE race.last,
                overtaken |-> race.overtaken \ {r}]
    /\ UNCHANGED <<vector_db, heap, last_indexed>>

RetrievalOutcomes == {"ok", "embed_error", "search_error"}
StreamOutcomes == {"content", "end", "error"}
LoadFailures == {"none", "ExtractionError", "SplitError"}

\* One segment of the handling of r.
Step(r) ==
    \/ \E a \in Authorizations, f \in Filenames : UploadBegin(r, a, f)
    \/ \E x \in LoadFailures, d \in Docs : UploadLoad(r, x, d)
    \/ \E ok \in BOOLEAN : UploadEmbed(r, ok)
    \/ UploadInstall(r)
    \/ UploadCancel(r)
    \/ \E a \in Authorizations, d \in DeveloperMessages, u \in UserMessages :
          ChatHandle(r, a, d, u)
    \/ \E o \in RetrievalOutcomes : ChatRetrieved(r, o)
    \/ GenerateFirst(r)
    \/ \E created \in BOOLEAN, n \in 0..MaxEvents, o \in StreamOutcomes :
          GenerateCreated(r, created, n, o)
    \/ GenerateNext(r)
    \/ \E n \in 0..MaxEvents, o \in StreamOutcomes : GenerateRead(r, n, o)
    \/ HealthCheck(r)
    \/ Recycle(r)

Next == \E r \in Req : Step(r)

Spec == Init /\ [][Next]_vars

----------------------------------------------------------------------------
\* Properties.

Uploads == { r \in Req : kind[r] = "upload" }
Chats == { r \in Req : kind[r] = "chat" }
Answered(r, status) == pc[r] = "done" /\ resp[r].status = status

\* C1: once an upload has been answered 200, the live index holds exactly the
\* chunks of the latest such upload, as many entries as that upload had
\* chunks: a successful upload replaces the index, it never adds to it.
C1_IndexIsLatestUpload ==
    last_indexed # <<>> =>
        /\ vector_db # None
        /\ IndexTexts(Live(vector_db, heap)) = last_indexed[1]
        /\ Len(Live(vector_db, heap)) = Len(last_indexed[1])

\* The same non-empty document was uploaded twice, both uploads answered 200,
\* and the index has the chunk count of one upload.
C1_Witness ==
    \E r1, r2 \in Uploads :
        /\ r1 # r2
        /\ Answered(r1, 200) /\ Answered(r2, 200)
        /\ upl[r1].chunks = upl[r2].chunks
        /\ Len(upl[r1].chunks) > 0
        /\ Len(Live(vector_db, heap)) = Len(upl[r2].chunks)

\* A step taken by upload request r.
UploadStep(r) ==
    /\ kind'[r] = "upload"
    /\ <<kind[r], pc[r], upl[r], calls[r]>> # <<kind'[r], pc'[r], upl'[r], calls'[r]>>

\* C2: every step of an upload other than the one that answers 200 leaves the
\* global reference and the entries of the live index as they were, whichever
\* step fails; and the index the global refers to is never one that an upload
\* is still building.
C2_FailedUploadLeavesIndex ==
    [][ /\ \A r \in Req :
              (UploadStep(r) /\ resp'[r].status # 200) =>
                  /\ vector_db' = vector_db
                  /\ Live(vector_db', heap') = Live(vector_db, heap)
        /\ \A r \in Req : pc'[r] = "embed" => upl'[r].db # vector_db'
      ]_vars

\* An upload failed in the embedder after one of its chunks had been embedded,
\* while a non-empty index was live.
C2_Witness ==
    \E r \in Uploads :
        /\ Answered(r, 500)
        /\ calls[r].embed >= 2
        /\ upl[r].embedded >= 1
        /\ Len(Live(vector_db, heap)) > 0

\* C3: once an upload request has terminated (answered, or cancelled), the
\* temporary file it created does not exist.
C3_TempFileDeletedOnEveryExit ==
    \A r \in Uploads : pc[r] \in Terminal => tmp[r] # "exists"

\* C4: the index a chat request checks and searches is empty (or absent), or
\* holds exactly the chunks of the latest upload answered 200 at that moment:
\* never part of a build, never a mixture.
C4_ChatSeesWholeIndex ==
    \A r \in Chats :
        \/ cht[r].seen = <<>>
        \/ cht[r].prior # <<>> /\ cht[r].seen = cht[r].prior[1]

\* A chat request searched a non-empty index while an upload had inserted
\* part of its chunks into the index it was building.
C4_Witness ==
    \E r \in Chats :
        /\ cht[r].overlap
        /\ cht[r].retrieval = "ok"
        /\ cht[r].relevant_chunks # <<>>

\* C5: an upload with a well-formed bearer credential and a file name that
\* does not end in .pdf is answered 400.
C5_NonPdfAnswered400 ==
    \A r \in Uploads :
        ( /\ pc[r] = "done"
          /\ ~AuthRejected(inp[r].authorization)
          /\ FormatRejected(inp[r].filename) )
        => resp[r].status = 400

\* C6: a chat or upload request whose Authorization header is present and
\* does not start with "Bearer " is answered 401.
C6_MalformedHeaderAnswered401 ==
    \A r \in Uploads \cup Chats :
        ( /\ pc[r] = "done"
          /\ inp[r].authorization # <<>>
          /\ ~StartsWith(inp[r].authorization, Bearer) )
        => resp[r].status = 401

\* C7: a chat or upload request whose Authorization header is rejected has
\* terminated, and has called no embedder, no generator, no PDF loader and
\* created no temporary file.
C7_AuthRejectedCallsNothing ==
    \A r \in Uploads \cup Chats :
        AuthRejected(inp[r].authorization) =>
            /\ pc[r] = "done"
            /\ calls[r] = NoCalls
            /\ tmp[r] = "none"
            /\ cht[r].sent = <<>>

\* Requests with a rejected header have terminated, one a chat and one an
\* upload, while a non-empty index was live.
C7_Witness ==
    /\ \E r \in Chats : AuthRejected(inp[r].authorization) /\ pc[r] = "done"
    /\ \E r \in Uploads : AuthRejected(inp[r].authorization) /\ pc[r] = "done"
    /\ Len(Live(vector_db, heap)) > 0

\* C8: when retrieval over a non-empty index fails in a chat request, the
\* request is not answered with an error: it has no chunks, its developer
\* instruction is the caller's, and once its response has ended the generator
\* has been called, once, with that instruction and the user message.
C8_RetrievalFailureStillGenerates ==
    \A r \in Chats :
        cht[r].retrieval = "failed" =>
            /\ resp[r].status = 200
            /\ cht[r].relevant_chunks = <<>>
            /\ cht[r].enhanced_developer_message = cht[r].developer_message
            /\ pc[r] \in Terminal =>
                  /\ calls[r].gen = 1
                  /\ cht[r].sent = <<cht[r].developer_message, cht[r].user_message>>

\* Retrieval failed over a non-empty index and the response ran to its end,
\* with a fragment emitted.
C8_Witness ==
    \E r \in Chats :
        /\ cht[r].retrieval = "failed"
        /\ cht[r].seen # <<>>
        /\ pc[r] = "done"
        /\ cht[r].emitted # <<>>

\* C9: a chat request that failed before any fragment was emitted is answered
\* 500, not with a started response of status 200.
C9_EarlyFailureAnswered500 ==
    \A r \in Chats :
        (pc[r] = "aborted" /\ cht[r].emitted = <<>>) => resp[r].status = 500

\* C10: when the generator raises after a fragment was emitted, the last
\* fragment emitted is an error marker, not a fragment of the provider.
C10_ErrorMarkerIsLastFragment ==
    \A r \in Chats :
        (pc[r] = "aborted" /\ cht[r].emitted # <<>>) =>
            cht[r].emitted[Len(cht[r].emitted)]
                \notin { cht[r].produced[i] : i \in DOMAIN cht[r].produced }

\* The step is the handling of a /health request taken into slot r.
HealthStep(r) == kind[r] # "health" /\ kind'[r] = "health"

\* C11: a /health request carries no credential and is answered 200, leaves
\* the global reference and every index as they were (it creates no index),
\* and reports the number of entries of the live index, which is 0 as long as
\* no upload has been answered 200, chat requests having run or not.
C11_HealthReadsOnly ==
    [][ \A r \in Req : HealthStep(r) =>
            /\ inp'[r] = NoInput
            /\ resp'[r].status = 200
            /\ vector_db' = vector_db
            /\ heap' = heap
            /\ resp'[r].n = Len(Live(vector_db, heap))
            /\ (last_indexed = <<>> => resp'[r].n = 0) ]_vars

\* A /health request answered 0 after a chat request created the empty index
\* and before any upload succeeded.
C11_Witness ==
    \E r \in Req :
        /\ kind[r] = "health"
        /\ Answered(r, 200)
        /\ resp[r].n = 0
        /\ vector_db # None
        /\ last_indexed = <<>>

\* The message carries the context section.
HasContext(message) == \E i \in DOMAIN message : message[i] = ContextHeader

\* C12: the developer message sent to the generator carries the context
\* section exactly when retrieval returned a chunk, and is the request's
\* developer message otherwise; the user message is sent as received; over an
\* empty index retrieval is skipped: no embedder call, status 200.
C12_ContextIffChunks ==
    \A r \in Chats :
        /\ cht[r].sent # <<>> =>
              /\ cht[r].sent[2] = cht[r].user_message
              /\ HasContext(cht[r].sent[1]) <=> cht[r].relevant_chunks # <<>>
              /\ cht[r].relevant_chunks = <<>> =>
                    cht[r].sent[1] = cht[r].developer_message
        /\ (cht[r].retrieval # "none" /\ cht[r].seen = <<>>) =>
              /\ cht[r].retrieval = "skipped"
              /\ calls[r].embed = 0
              /\ resp[r].status = 200
              /\ cht[r].relevant_chunks = <<>>

\* Before any upload succeeded a chat request skipped retrieval and its
\* generator call was made with the developer message unchanged.
C12_Witness ==
    \E r \in Chats :
        /\ last_indexed = <<>>
        /\ cht[r].retrieval = "skipped"
        /\ calls[r].gen = 1
        /\ cht[r].sent = <<cht[r].developer_message, cht[r].user_message>>

\* C13: while a chat request is inside an embedder or generator call, a
\* segment of another request can be run.
C13_CallsAreSuspensionPoints ==
    \A r \in Chats :
        pc[r] \in InCall =>
            ENABLED (\E q \in Req \ {r} : Step(q))

ChatStep(r) ==
    /\ kind'[r] = "chat"
    /\ <<kind[r], pc[r], cht[r]>> # <<kind'[r], pc'[r], cht'[r]>>

WithContent(events) == SelectSeq(events, LAMBDA e : e # NoContent)

\* C15: the fragments emitted are the provider's events that carry content,
\* in the provider's order, one fragment per event; events without content
\* give no fragment; when the provider's stream has ended nothing follows.
C15_EmittedAreContentEvents ==
    \A r \in Chats :
        /\ cht[r].emitted = WithContent(cht[r].produced)
        /\ \A i \in DOMAIN cht[r].emitted : cht[r].emitted[i] # NoContent

\* A response ran to the provider's end; the stream had an event without
\* content before an event with content.
C15_Witness ==
    \E r \in Chats :
        /\ pc[r] = "done"
        /\ cht[r].emitted # <<>>
        /\ \E i \in DOMAIN cht[r].produced :
              /\ cht[r].produced[i] = NoContent
              /\ i < cht[r].emitted[Len(cht[r].emitted)]

\* C16: of two uploads answered 200, the one answered last owns the live
\* index: its chunks, in its order, as many entries as it had chunks, nothing
\* of the other upload; the other's index is referred to by nothing.
C16_LastBuildWins ==
    \A r1 \in Uploads, r2 \in Uploads :
        (r1 # r2 /\ Answered(r1, 200) /\ Answered(r2, 200) /\ race.last = r2) =>
            /\ IndexTexts(Live(vector_db, heap)) = upl[r2].chunks
            /\ Len(Live(vector_db, heap)) = Len(upl[r2].chunks)
            /\ upl[r1].db = None
            /\ Cardinality({ o \in ObjIds : heap[o].alloc }) =
                  1 + Cardinality({ q \in Req : upl[q].db # None })

\* Two uploads of different documents were answered 200; the one answered
\* last was in flight when an upload was answered before it.
C16_Witness ==
    \E r1 \in Uploads, r2 \in Uploads :
        /\ r1 # r2
        /\ Answered(r1, 200) /\ Answered(r2, 200)
        /\ race.last = r2
        /\ r2 \in race.overtaken
        /\ upl[r1].chunks # <<>>
        /\ upl[r1].chunks # upl[r2].chunks
        /\ IndexTexts(Live(vector_db, heap)) = upl[r2].chunks

====
